---- MODULE Spec2Model ----
(***************************************************************************)
(* A model of the Orchestrator: the persistent session store               *)
(* (orchestrator/session_store.py), the query router, the Parallel RCA     *)
(* coordinator and the chat turns (orchestrator/agent.py) and the HTTP/SSE *)
(* handlers (orchestrator/main.py).                                        *)
(*                                                                         *)
(* A Python str whose characters matter (message content, titles, session  *)
(* ids, peer names, timestamps, reports) is a sequence of one-character    *)
(* strings; a character outside ASCII is written by its code point         *)
(* ("U+274C").  Strings that are only compared for equality (roles, user   *)
(* ids, event types, dictionary keys) are TLA+ strings.                    *)
(***************************************************************************)
EXTENDS Integers, Sequences, FiniteSets, TLC

VARIABLES
    cache,      \* PersistentSessionStore._cache: session id -> SessionData
    files,      \* the file system: resolved path -> file content
    clock,      \* the last reading of datetime.now()
    last,       \* the last direct call of add_message or delete_session, or the
                \* restart, when it came later: [op, id, ret]
    adds,       \* number of direct add_message calls made so far
    appended,   \* history: per session id, the messages add_message appended
                \* since the session was last created
    config,     \* OrchestratorConfig: the names of the enabled peers, in order
    agent,      \* OrchestratorAgent: agent, mcp_toolsets, sub_agents, parallel_rca_agent
    turn,       \* the requests to /chat and /chat/stream being served, by slot
    started,    \* number of turns started so far
    runtime_sessions    \* InMemorySessionService: the (user id, session id) it holds

storeVars == <<cache, files, clock, last, adds, appended>>

orchVars == <<config, agent, turn, started, runtime_sessions>>

(***************************************************************************)
(* Bounds of the model.                                                    *)
(***************************************************************************)
MaxClock == 1       \* datetime.now() readings range over 0..MaxClock
MaxAdds == 2        \* direct add_message calls in one behaviour of SpecStore
MaxEvents == 2      \* events of one run of the Main Agent's runtime
MaxSubEvents == 1   \* events of one run of a specialist's runtime
MaxTurns == 2       \* turns started in one behaviour of Spec
MaxInFlight == 1    \* turns served at the same time

(***************************************************************************)
(* Strings.                                                                *)
(***************************************************************************)
Rep(c, n) == [i \in 1..n |-> c]

Min(a, b) == IF a < b THEN a ELSE b

\* s[:n]
Take(s, n) == SubSeq(s, 1, Min(Len(s), n))

\* s.endswith(suffix)
EndsWith(s, suffix) ==
    /\ Len(suffix) <= Len(s)
    /\ SubSeq(s, Len(s) - Len(suffix) + 1, Len(s)) = suffix

\* s.split(sep) for a one-character separator
Split(s, sep) ==
    LET at == <<0>> \o SelectSeq([i \in DOMAIN s |-> i], LAMBDA i : s[i] = sep)
                    \o <<Len(s) + 1>>
    IN  [k \in 1..(Len(at) - 1) |-> SubSeq(s, at[k] + 1, at[k + 1] - 1)]

S_dotjson == <<".", "j", "s", "o", "n">>
S_ellipsis == <<".", ".", ".">>
S_dotdot == <<".", ".">>
S_dot == <<".">>
S_app == <<"a", "p", "p">>
S_sessions == <<"s", "e", "s", "s", "i", "o", "n", "s">>

(***************************************************************************)
(* Time.  datetime.now() is read as a number of half seconds;              *)
(* isoformat() prints the seconds on two digits and the microseconds, on   *)
(* six digits, only when they are not zero.  The date is left out.         *)
(***************************************************************************)
Digit(d) == <<"0", "1", "2", "3", "4", "5", "6", "7", "8", "9">>[d + 1]

isoformat(t) ==
    <<"T", Digit((t \div 2) \div 10), Digit((t \div 2) % 10)>>
        \o (IF t % 2 = 0 THEN <<>> ELSE <<".", "5", "0", "0", "0", "0", "0">>)

\* The readings of n successive calls of datetime.now() after reading c: the
\* clock does not go back, and passes at most one unit between two calls.
RECURSIVE NowSeq(_, _)
NowSeq(c, n) ==
    IF n = 0 THEN {<<>>}
    ELSE {<<t>> \o rest : t \in {c, Min(c + 1, MaxClock)}, rest \in NowSeq(c, n - 1)}

NowReadings(c, n) ==
    {s \in NowSeq(c, n) :
        /\ \A i \in 1..(n - 1) : s[i] <= s[i + 1]
        /\ \A i \in 1..n : s[i] <= Min(c + 1, MaxClock)}

(***************************************************************************)
(* Dictionaries (dict, and the JSON objects of a session file).            *)
(***************************************************************************)
EmptyDict == [k \in {} |-> k]

Put(m, k, v) == [x \in (DOMAIN m) \cup {k} |-> IF x = k THEN v ELSE m[x]]

Del(m, k) == [x \in (DOMAIN m) \ {k} |-> m[x]]

\* d.get(key, default)
Get(d, key, default) == IF key \in DOMAIN d THEN d[key] ELSE default

None == [cls |-> "NoneType"]

(***************************************************************************)
(* session_store.py: ConversationMessage and SessionData.                  *)
(***************************************************************************)
TitleLimit == 50

ConversationMessage(role, content, timestamp) ==
    [cls |-> "ConversationMessage", role |-> role, content |-> content,
     timestamp |-> timestamp]

SessionData(sid, uid, app, title, created, updated, msgs, meta) ==
    [cls |-> "SessionData", session_id |-> sid, user_id |-> uid,
     app_name |-> app, title |-> title, created_at |-> created,
     updated_at |-> updated, messages |-> msgs, metadata |-> meta]

to_dict(s) ==
    [session_id |-> s.session_id,
     user_id |-> s.user_id,
     app_name |-> s.app_name,
     title |-> s.title,
     created_at |-> s.created_at,
     updated_at |-> s.updated_at,
     messages |-> [i \in 1..Len(s.messages) |->
                      [role |-> s.messages[i].role,
                       content |-> s.messages[i].content,
                       timestamp |-> s.messages[i].timestamp]],
     metadata |-> s.metadata]

from_dict(data) ==
    SessionData(
        data["session_id"],
        data["user_id"],
        Get(data, "app_name", "orchestrator"),
        Get(data, "title", <<>>),
        Get(data, "created_at", <<>>),
        Get(data, "updated_at", <<>>),
        LET ms == Get(data, "messages", <<>>)
        IN  [i \in 1..Len(ms) |->
                ConversationMessage(ms[i]["role"], ms[i]["content"],
                                    Get(ms[i], "timestamp", <<>>))],
        Get(data, "metadata", EmptyDict))

\* TitleOf with the marker added from TitleLimit characters on.
TitleOf_MarkerAtLimit(content) ==
    Take(content, TitleLimit)
        \o (IF Len(content) >= TitleLimit THEN S_ellipsis ELSE <<>>)

\* The title SessionData.add_message derives from a user message.
TitleOf(content) ==
    Take(content, TitleLimit)
        \o (IF Len(content) > TitleLimit THEN S_ellipsis ELSE <<>>)

\* SessionData.add_message putting the new message first.
SessionData_add_message_Prepend(s, role, content, t_msg, t_upd) ==
    [s EXCEPT
        !.messages = <<ConversationMessage(role, content, isoformat(t_msg))>> \o @,
        !.updated_at = isoformat(t_upd),
        !.title = IF @ = <<>> /\ role = "user" THEN TitleOf(content) ELSE @]

\* SessionData.add_message; t_msg and t_upd are its two readings of the clock.
SessionData_add_message(s, role, content, t_msg, t_upd) ==
    [s EXCEPT
        !.messages = Append(@, ConversationMessage(role, content, isoformat(t_msg))),
        !.updated_at = isoformat(t_upd),
        !.title = IF @ = <<>> /\ role = "user" THEN TitleOf(content) ELSE @]

(***************************************************************************)
(* The file system.  A path is the sequence of its components from the     *)
(* root.  The process runs in /app and the store's directory is            *)
(* ./sessions, which the constructor creates; the program creates no other *)
(* directory.                                                              *)
(***************************************************************************)
Cwd == <<S_app>>

SessionsDir == Cwd \o <<S_sessions>>

Dirs == {<<>>, Cwd, SessionsDir}

\* A file the program cannot parse as a session (json.load or from_dict raises).
Corrupt == [cls |-> "corrupt"]

\* pathlib: base / name.  The name is split at "/", empty and "." components
\* are dropped, and a name that starts with "/" replaces the base.
PathParts(name) == SelectSeq(Split(name, "/"), LAMBDA p : p # <<>> /\ p # S_dot)

PathJoin(base, name) ==
    IF name # <<>> /\ name[1] = "/" THEN PathParts(name) ELSE base \o PathParts(name)

\* The kernel's walk along a path: every component but the last must lead to
\* an existing directory, ".." leads to the parent.
RECURSIVE Walk(_, _)
Walk(cur, rest) ==
    IF cur \notin Dirs \/ rest = <<>> THEN [ok |-> FALSE, path |-> cur]
    ELSE IF Len(rest) = 1 THEN [ok |-> TRUE, path |-> Append(cur, rest[1])]
    ELSE IF rest[1] = S_dotdot
         THEN Walk(IF cur = <<>> THEN cur ELSE SubSeq(cur, 1, Len(cur) - 1), Tail(rest))
         ELSE Walk(Append(cur, rest[1]), Tail(rest))

Resolve(parts) == Walk(<<>>, parts)

\* PersistentSessionStore._get_session_file
session_file(session_id) == PathJoin(SessionsDir, session_id \o S_dotjson)

\* Path.exists()
Exists(f, parts) == Resolve(parts).ok /\ Resolve(parts).path \in DOMAIN f

(***************************************************************************)
(* session_store.py: PersistentSessionStore.  Each method is an operator   *)
(* from the store (c: the cache, f: the files) to the store after the call *)
(* and the value returned.                                                 *)
(***************************************************************************)
get_session(c, f, session_id) ==
    IF session_id \in DOMAIN c THEN [cache |-> c, ret |-> c[session_id]]
    ELSE IF Exists(f, session_file(session_id))
         THEN LET data == f[Resolve(session_file(session_id)).path]
              IN  IF data = Corrupt THEN [cache |-> c, ret |-> None]
                  ELSE [cache |-> Put(c, session_id, from_dict(data)),
                        ret |-> from_dict(data)]
         ELSE [cache |-> c, ret |-> None]

\* open(session_file, "w") raises when the directory of the file is missing;
\* save_session prints the error and returns.
save_session(f, session) ==
    LET r == Resolve(session_file(session.session_id))
    IN  IF r.ok THEN Put(f, r.path, to_dict(session)) ELSE f

create_session(c, f, session_id, user_id, t_created, t_updated) ==
    LET session == SessionData(session_id, user_id, "orchestrator", <<>>,
                               isoformat(t_created), isoformat(t_updated),
                               <<>>, EmptyDict)
    IN  [cache |-> Put(c, session_id, session),
         files |-> save_session(f, session),
         ret |-> session]

\* add_message that takes every id as absent and creates its session.
add_message_AlwaysCreates(c, f, session_id, role, content, user_id, now) ==
    LET had == create_session(c, f, session_id, user_id, now[1], now[2])
        session == SessionData_add_message(had.ret, role, content, now[3], now[4])
    IN  [cache |-> Put(had.cache, session_id, session),
         files |-> save_session(had.files, session),
         ret |-> session]

\* now: the four readings of the clock the call may make (two by
\* create_session, two by SessionData.add_message).
add_message(c, f, session_id, role, content, user_id, now) ==
    LET got == get_session(c, f, session_id)
        had == IF got.ret = None
               THEN create_session(got.cache, f, session_id, user_id, now[1], now[2])
               ELSE [cache |-> got.cache, files |-> f, ret |-> got.ret]
        session == SessionData_add_message(had.ret, role, content, now[3], now[4])
    IN  [cache |-> Put(had.cache, session_id, session),
         files |-> save_session(had.files, session),
         ret |-> session]

\* The sessions list_sessions loads: the parseable *.json files of the
\* directory, of the given user when one is given.
list_sessions_loaded(f, user_id) ==
    {from_dict(f[p]) : p \in
        {q \in DOMAIN f :
            /\ SubSeq(q, 1, Len(q) - 1) = SessionsDir
            /\ EndsWith(q[Len(q)], S_dotjson)
            /\ f[q] # Corrupt
            /\ (user_id = "None" \/ f[q]["user_id"] = user_id)}}

\* The order of the code points of the characters of a timestamp, and the
\* comparison "<" of two strings.
CodePoints == <<".", "0", "1", "2", "3", "4", "5", "6", "7", "8", "9", "T">>

Ord(ch) == CHOOSE i \in DOMAIN CodePoints : CodePoints[i] = ch

StrLess(a, b) ==
    \E i \in DOMAIN b :
        /\ i <= Len(a) + 1
        /\ \A j \in 1..(i - 1) : a[j] = b[j]
        /\ i > Len(a) \/ Ord(a[i]) < Ord(b[i])

\* sessions.sort(key=lambda s: s.updated_at, reverse=True): one session
\* more in a list already sorted; the sort is stable.
InsertSorted_Ascending(sorted, s) ==
    LET k == Cardinality({i \in DOMAIN sorted : ~StrLess(s.updated_at, sorted[i].updated_at)})
    IN  SubSeq(sorted, 1, k) \o <<s>> \o SubSeq(sorted, k + 1, Len(sorted))

InsertSorted(sorted, s) ==
    LET k == Cardinality({i \in DOMAIN sorted : ~StrLess(sorted[i].updated_at, s.updated_at)})
    IN  SubSeq(sorted, 1, k) \o <<s>> \o SubSeq(sorted, k + 1, Len(sorted))

\* The orders in which glob("*.json") may give the files of the directory.
GlobOrders(f) ==
    LET found == {q \in DOMAIN f : /\ SubSeq(q, 1, Len(q) - 1) = SessionsDir
                                   /\ EndsWith(q[Len(q)], S_dotjson)}
    IN  {o \in [1..Cardinality(found) -> found] :
            \A i, j \in DOMAIN o : i # j => o[i] # o[j]}

\* list_sessions, globbed being the files in the order glob gives them.
list_sessions(f, user_id, globbed) ==
    LET kept == SelectSeq(globbed, LAMBDA q :
                    /\ f[q] # Corrupt
                    /\ (user_id = "None" \/ from_dict(f[q]).user_id = user_id))
        sorted[i \in 0..Len(kept)] ==
            IF i = 0 THEN <<>> ELSE InsertSorted(sorted[i - 1], from_dict(f[kept[i]]))
    IN  sorted[Len(kept)]

\* delete_session leaving the cache entry in place.
delete_session_KeepsCache(c, f, session_id) ==
    LET r == Resolve(session_file(session_id))
    IN  IF Exists(f, session_file(session_id))
        THEN [cache |-> c, files |-> Del(f, r.path), ret |-> TRUE]
        ELSE [cache |-> c, files |-> f, ret |-> FALSE]

delete_session(c, f, session_id) ==
    LET r == Resolve(session_file(session_id))
    IN  IF Exists(f, session_file(session_id))
        THEN [cache |-> Del(c, session_id), files |-> Del(f, r.path), ret |-> TRUE]
        ELSE [cache |-> Del(c, session_id), files |-> f, ret |-> FALSE]

(***************************************************************************)
(* str.lower(), str.upper(), the operator "in" on two strings, str.join.   *)
(***************************************************************************)
S_lowers ==
    <<"a", "b", "c", "d", "e", "f", "g", "h", "i", "j", "k", "l", "m", "n", "o", "p", "q", "r",
      "s", "t", "u", "v", "w", "x", "y", "z">>

S_uppers ==
    <<"A", "B", "C", "D", "E", "F", "G", "H", "I", "J", "K", "L", "M", "N", "O", "P", "Q", "R",
      "S", "T", "U", "V", "W", "X", "Y", "Z">>

Translate(ch, from, to) ==
    IF \E i \in DOMAIN from : from[i] = ch
    THEN to[CHOOSE i \in DOMAIN from : from[i] = ch]
    ELSE ch

lower(s) == [i \in DOMAIN s |-> Translate(s[i], S_uppers, S_lowers)]

upper(s) == [i \in DOMAIN s |-> Translate(s[i], S_lowers, S_uppers)]

Contains(sub, s) ==
    \E i \in 1..(Len(s) - Len(sub) + 1) : SubSeq(s, i, i + Len(sub) - 1) = sub

RECURSIVE Join(_, _)
Join(items, sep) ==
    IF items = <<>> THEN <<>>
    ELSE IF Len(items) = 1 THEN items[1]
    ELSE items[1] \o sep \o Join(Tail(items), sep)

Concat(items) == Join(items, <<>>)

(***************************************************************************)
(* agent.py: the router.  _is_platform_specific_query returns the name of  *)
(* the platform, or None, which is written <<>> here (no platform has an   *)
(* empty name, and the callers only test the value for None or for truth). *)
(***************************************************************************)
S_jenkins == <<"j", "e", "n", "k", "i", "n", "s">>

S_kubernetes == <<"k", "u", "b", "e", "r", "n", "e", "t", "e", "s">>

jenkins_keywords ==
    <<<<"j", "e", "n", "k", "i", "n", "s">>,
      <<"p", "i", "p", "e", "l", "i", "n", "e">>,
      <<"b", "u", "i", "l", "d", " ", "j", "o", "b">>,
      <<"j", "e", "n", "k", "i", "n", "s", " ", "j", "o", "b">>,
      <<"j", "e", "n", "k", "i", "n", "s", "f", "i", "l", "e">>,
      <<"c", "i", "/", "c", "d", " ", "p", "i", "p", "e", "l", "i", "n", "e">>>>

k8s_keywords ==
    <<<<"k", "u", "b", "e", "r", "n", "e", "t", "e", "s">>,
      <<"k", "8", "s">>,
      <<"p", "o", "d">>,
      <<"d", "e", "p", "l", "o", "y", "m", "e", "n", "t">>,
      <<"k", "u", "b", "e", "c", "t", "l">>,
      <<"n", "a", "m", "e", "s", "p", "a", "c", "e">>,
      <<"c", "o", "n", "t", "a", "i", "n", "e", "r">>,
      <<"h", "e", "l", "m">>,
      <<"k", "u", "b", "e">>>>

rca_indicators ==
    <<<<"f", "a", "i", "l", "i", "n", "g">>,
      <<"f", "a", "i", "l", "e", "d">>,
      <<"e", "r", "r", "o", "r">>,
      <<"b", "r", "o", "k", "e", "n">>,
      <<"n", "o", "t", " ", "w", "o", "r", "k", "i", "n", "g">>,
      <<"i", "s", "s", "u", "e">>,
      <<"p", "r", "o", "b", "l", "e", "m">>,
      <<"w", "h", "y">>,
      <<"d", "e", "b", "u", "g">>,
      <<"t", "r", "o", "u", "b", "l", "e", "s", "h", "o", "o", "t">>,
      <<"i", "n", "v", "e", "s", "t", "i", "g", "a", "t", "e">>,
      <<"r", "c", "a">>,
      <<"r", "o", "o", "t", " ", "c", "a", "u", "s", "e">>,
      <<"c", "r", "a", "s", "h", "i", "n", "g">>,
      <<"d", "o", "w", "n">>,
      <<"u", "n", "a", "v", "a", "i", "l", "a", "b", "l", "e">>,
      <<"t", "i", "m", "e", "o", "u", "t">>,
      <<"s", "t", "u", "c", "k">>,
      <<"h", "e", "l", "p">>>>

AnyKeyword(keywords, query_lower) ==
    \E i \in DOMAIN keywords : Contains(keywords[i], query_lower)

_is_platform_specific_query(query) ==
    IF AnyKeyword(jenkins_keywords, lower(query)) THEN S_jenkins
    ELSE IF AnyKeyword(k8s_keywords, lower(query)) THEN S_kubernetes
    ELSE <<>>

_is_rca_query(query) == AnyKeyword(rca_indicators, lower(query))

\* The test of chat and chat_stream: ag is the agent's state.
UseParallelRca_AnyPlatform(ag, query) ==
    /\ _is_rca_query(query)
    /\ ag.parallel_rca_agent
    /\ Len(ag.sub_agents) > 1

UseParallelRca(ag, query) ==
    /\ _is_rca_query(query)
    /\ _is_platform_specific_query(query) = <<>>
    /\ ag.parallel_rca_agent
    /\ Len(ag.sub_agents) > 1

(***************************************************************************)
(* agent.py: initialize.  servers is the list of the enabled peers of the  *)
(* configuration; the toolsets and the sub-agents are dicts filled in that *)
(* order, written as the sequence of their keys.                           *)
(***************************************************************************)
NoAgent == [agent |-> FALSE, mcp_toolsets |-> <<>>, sub_agents |-> <<>>,
            parallel_rca_agent |-> FALSE]

initialize(servers) ==
    [agent |-> TRUE, mcp_toolsets |-> servers, sub_agents |-> servers,
     parallel_rca_agent |-> Len(servers) > 1]

(***************************************************************************)
(* The events of the agent runtime (Runner.run_async): an event has a list *)
(* of parts and may be the final response; a part is a text, a function    *)
(* call or a function response.                                            *)
(***************************************************************************)
S_list_jobs == <<"l", "i", "s", "t", "_", "j", "o", "b", "s">>

S_ok == <<"o", "k">>

S_found == <<"f", "o", "u", "n", "d">>

S_boom == <<"b", "o", "o", "m">>

TextPart(text) == [kind |-> "text", text |-> text, name |-> <<>>]

CallPart(name) == [kind |-> "function_call", text |-> <<>>, name |-> name]

ResponsePart(result) == [kind |-> "function_response", text |-> result, name |-> <<>>]

Event(parts, final) == [parts |-> parts, final |-> final]

TextEv == Event(<<TextPart(S_found)>>, FALSE)

ToolCallEv == Event(<<CallPart(S_list_jobs)>>, FALSE)

ToolResultEv == Event(<<ResponsePart(S_ok)>>, FALSE)

FinalEv == Event(<<TextPart(S_ok)>>, TRUE)

Events == {TextEv, ToolCallEv, ToolResultEv, FinalEv}

\* The runs of a specialist's runtime: the events it yields and how the iteration
\* ends, by exhaustion ("end") or by an exception whose text is S_boom.
Runs ==
    { [events |-> evs, ending |-> e] :
        evs \in UNION { [1..n -> Events] : n \in 0..MaxSubEvents },
        e \in {"end", "raise"} }

\* The names of the function calls of a sequence of events.
RECURSIVE CallsOf(_)
CallsOf(evs) ==
    IF evs = <<>> THEN <<>>
    ELSE [i \in DOMAIN SelectSeq(Head(evs).parts, LAMBDA p : p.kind = "function_call") |->
             SelectSeq(Head(evs).parts, LAMBDA p : p.kind = "function_call")[i].name]
         \o CallsOf(Tail(evs))

(***************************************************************************)
(* agent.py: the Parallel RCA coordinator.                                 *)
(***************************************************************************)
S_no_response ==
    <<"N", "o", " ", "r", "e", "s", "p", "o", "n", "s", "e", " ", "f", "r", "o", "m", " ", "a",
      "g", "e", "n", "t", ".">>

S_no_findings == <<"N", "o", " ", "f", "i", "n", "d", "i", "n", "g", "s", ".">>

S_error_prefix == <<"E", "r", "r", "o", "r", ":", " ">>

S_rca_error_prefix ==
    <<"U+274C", " ", "E", "r", "r", "o", "r", " ", "d", "u", "r", "i", "n", "g", " ", "i", "n",
      "v", "e", "s", "t", "i", "g", "a", "t", "i", "o", "n", ":", " ">>

S_tool_result_open ==
    <<"\n", "[", "T", "o", "o", "l", " ", "R", "e", "s", "u", "l", "t", "]", "\n">>

S_nl == <<"\n">>

S_report_title ==
    <<"#", " ", "U+1F50D", " ", "P", "a", "r", "a", "l", "l", "e", "l", " ", "R", "o", "o",
      "t", " ", "C", "a", "u", "s", "e", " ", "A", "n", "a", "l", "y", "s", "i", "s", " ", "R",
      "e", "p", "o", "r", "t">>

S_issue == <<"*", "*", "I", "s", "s", "u", "e", "*", "*", ":", " ">>

S_platforms ==
    <<"*", "*", "P", "l", "a", "t", "f", "o", "r", "m", "s", " ", "I", "n", "v", "e", "s", "t",
      "i", "g", "a", "t", "e", "d", "*", "*", ":", " ">>

S_comma == <<",", " ">>

S_rule == <<"-", "-", "-">>

S_section_open == <<"#", "#", " ", "U+1F4CA", " ">>

S_section_close == <<" ", "I", "n", "v", "e", "s", "t", "i", "g", "a", "t", "i", "o", "n">>

S_summary ==
    <<"#", "#", " ", "U+1F4CB", " ", "C", "o", "m", "b", "i", "n", "e", "d", " ", "S", "u",
      "m", "m", "a", "r", "y">>

S_review ==
    <<"R", "e", "v", "i", "e", "w", " ", "t", "h", "e", " ", "f", "i", "n", "d", "i", "n", "g",
      "s", " ", "a", "b", "o", "v", "e", " ", "f", "r", "o", "m", " ", "e", "a", "c", "h", " ",
      "p", "l", "a", "t", "f", "o", "r", "m", " ", "t", "o", " ", "i", "d", "e", "n", "t", "i",
      "f", "y", " ", "t", "h", "e", " ", "r", "o", "o", "t", " ", "c", "a", "u", "s", "e", ".">>

S_crossref ==
    <<"C", "r", "o", "s", "s", "-", "r", "e", "f", "e", "r", "e", "n", "c", "e", " ", "i", "s",
      "s", "u", "e", "s", " ", "t", "h", "a", "t", " ", "a", "p", "p", "e", "a", "r", " ", "i",
      "n", " ", "m", "u", "l", "t", "i", "p", "l", "e", " ", "p", "l", "a", "t", "f", "o", "r",
      "m", "s", ".">>

\* What one event adds to response_parts in _run_sub_agent_rca.
SubAgentParts(ev) ==
    LET kept == SelectSeq(ev.parts,
                   LAMBDA p : (p.kind = "text" /\ p.text # <<>>)
                              \/ (p.kind = "function_response" /\ p.text # <<>>))
    IN  [i \in DOMAIN kept |->
            IF kept[i].kind = "text" THEN kept[i].text
            ELSE S_tool_result_open \o kept[i].text \o S_nl]

\* The loop of _run_sub_agent_rca over the events of a run: it stops at
\* the first final response; an exception of the runtime is caught.
RECURSIVE SubAgentLoop(_, _, _)
SubAgentLoop(evs, ending, response_parts) ==
    IF evs = <<>> THEN
        IF ending = "raise" THEN S_error_prefix \o S_boom
        ELSE IF response_parts # <<>> THEN Concat(response_parts) ELSE S_no_findings
    ELSE LET parts == response_parts \o SubAgentParts(Head(evs))
         IN  IF Head(evs).final
             THEN IF parts # <<>> THEN Concat(parts) ELSE S_no_findings
             ELSE SubAgentLoop(Tail(evs), ending, parts)

_run_sub_agent_rca(run) == [exception |-> FALSE, value |-> SubAgentLoop(run.events, run.ending, <<>>)]

\* asyncio.gather(*tasks, return_exceptions=True): the results in the
\* order of the awaitables; returned[name] is what the task of name
\* returned or raised and done_order the order in which the tasks ended.
gather_InCompletionOrder(names, returned, done_order) ==
    [i \in DOMAIN names |-> returned[done_order[i]]]

gather(names, returned, done_order) ==
    [i \in DOMAIN names |-> returned[names[i]]]

_combine_rca_results(original_query, names, findings) ==
    LET head == << S_report_title, <<>>, S_issue \o original_query, <<>>,
                   S_platforms \o Join(names, S_comma), <<>>, S_rule, <<>> >>
        section(i) == << S_section_open \o upper(names[i]) \o S_section_close, <<>>,
                         findings[i], <<>>, S_rule, <<>> >>
        sections[i \in 0..Len(names)] ==
            IF i = 0 THEN <<>> ELSE sections[i - 1] \o section(i)
        foot == << S_summary, <<>>, S_review, S_crossref >>
    IN  Join(head \o sections[Len(names)] \o foot, S_nl)

\* _parallel_rca once every task has ended.
_parallel_rca(user_input, names, returned, done_order) ==
    LET completed == gather(names, returned, done_order)
        results == [i \in DOMAIN names |->
                       IF completed[i].exception
                       THEN S_rca_error_prefix \o completed[i].value
                       ELSE completed[i].value]
    IN  _combine_rca_results(user_input, names, results)

S_processing ==
    <<"U+00F0", "U+0178", "U+201D", "U+201E", " ", "P", "r", "o", "c", "e", "s", "s", "i", "n", "g", " ", "y", "o", "u",
      "r", " ", "r", "e", "q", "u", "e", "s", "t", ".", ".", ".">>

S_using_rca ==
    <<"U+1F504", " ", "U", "s", "i", "n", "g", " ", "P", "A", "R", "A", "L", "L", "E", "L",
      " ", "R", "C", "A", " ", "a", "c", "r", "o", "s", "s", " ">>

S_platforms_dots == <<" ", "p", "l", "a", "t", "f", "o", "r", "m", "s", ".", ".", ".">>

S_specific ==
    <<"U+1F3AF", " ", "P", "l", "a", "t", "f", "o", "r", "m", "-", "s", "p", "e", "c", "i",
      "f", "i", "c", " ", "q", "u", "e", "r", "y", ":", " ">>

S_main_agent ==
    <<"U+1F4AC", " ", "P", "r", "o", "c", "e", "s", "s", "i", "n", "g", " ", "w", "i", "t",
      "h", " ", "m", "a", "i", "n", " ", "a", "g", "e", "n", "t", ".", ".", ".">>

S_calling ==
    <<"U+00F0", "U+0178", "U+201D", "U+00A7", " ", "C", "a", "l", "l", "i", "n", "g", ":", " ">>

S_parens == <<"(", ")">>

S_hi == <<"h", "i">>

S_app_down == <<"a", "p", "p", " ", "i", "s", " ", "d", "o", "w", "n">>

S_jenkins_failed == <<"J", "e", "n", "k", "i", "n", "s", " ", "f", "a", "i", "l", "e", "d">>

S_k8s == <<"k", "8", "s">>

(***************************************************************************)
(* main.py: the frames of POST /chat/stream (the JSON object of each       *)
(* "data:" line) and the body of POST /chat.  The function calls of the    *)
(* modelled runs carry no argument, so the preview of the arguments is     *)
(* empty.                                                                  *)
(***************************************************************************)
StatusFrame(message) == [type |-> "status", message |-> message]

ToolCallFrame_Silent(tool_name) == StatusFrame(S_calling \o tool_name \o S_parens)

ToolCallFrame(tool_name) ==
    [type |-> "tool_call", message |-> S_calling \o tool_name \o S_parens,
     tool_name |-> tool_name, args |-> EmptyDict]

ErrorFrame(message) == [type |-> "error", message |-> message]

CompleteFrame(response, user_id, session_id) ==
    [type |-> "complete", response |-> response, user_id |-> user_id,
     session_id |-> session_id]

ChatResponse(response, user_id, session_id) ==
    [status |-> 200, response |-> response, user_id |-> user_id,
     session_id |-> session_id]

NoResponse == [status |-> 0]

(***************************************************************************)
(* A turn: one request to POST /chat or POST /chat/stream, from the        *)
(* handler's entry to its last frame or its response.                      *)
(*   parts      response_parts of _single_agent_chat or of chat_stream     *)
(*   out_parts  response_parts of generate                                 *)
(*   branches   the tasks of _parallel_rca, by peer                        *)
(* The other fields record what happened: saved, the messages the turn     *)
(* gave to the store; log, the order of the store's and the runtime's      *)
(* calls; calls, the function calls the Main Agent's runtime reported;     *)
(* raised, whether that runtime raised.                                    *)
(***************************************************************************)
Range(s) == { s[i] : i \in DOMAIN s }

IdleTurn ==
    [pc |-> "idle", kind |-> "none", text |-> <<>>, user_id |-> "none",
     session_id |-> <<>>, dest |-> "none", parts |-> <<>>, out_parts |-> <<>>,
     frames |-> <<>>, nev |-> 0, branches |-> EmptyDict, done_order |-> <<>>,
     response |-> NoResponse, saved |-> <<>>, log |-> <<>>, calls |-> <<>>,
     raised |-> FALSE]

\* session_store.add_message called by a turn: the stores and clocks the
\* call may leave.  The clock may have advanced since the last call; the
\* readings of one call are taken as equal.
StoreAdd(c, f, clk, session_id, role, content, user_id) ==
    { [cache |-> add_message(c, f, session_id, role, content, user_id, <<t, t, t, t>>).cache,
       files |-> add_message(c, f, session_id, role, content, user_id, <<t, t, t, t>>).files,
       clock |-> t] :
        t \in clk..Min(clk + 1, MaxClock) }

\* The text parts of a final response (_single_agent_chat_stream).
FinalTexts(ev) ==
    IF ev.final
    THEN LET kept == SelectSeq(ev.parts, LAMBDA p : p.kind = "text" /\ p.text # <<>>)
         IN  [i \in DOMAIN kept |-> kept[i].text]
    ELSE <<>>

ToolCallFrames(ev) == [i \in DOMAIN CallsOf(<<ev>>) |-> ToolCallFrame(CallsOf(<<ev>>)[i])]

\* The derived session id of a specialist.
SubSessionId(session_id, server_name) == session_id \o <<"_">> \o server_name

\* The status line of chat_stream for the chosen route.
RouteStatus(ag, text) ==
    IF UseParallelRca(ag, text)
    THEN S_using_rca \o <<Digit(Len(ag.sub_agents))>> \o S_platforms_dots
    ELSE IF _is_platform_specific_query(text) # <<>>
         THEN S_specific \o _is_platform_specific_query(text)
         ELSE S_main_agent

\* The turn once chat or chat_stream has saved the user message and chosen
\* the route: the tasks of the specialists are created, or the Main
\* Agent's runtime is called.
\* Routed with a route that depends on the session id.
Routed_BySession(t, ag) ==
    [t EXCEPT
        !.dest = IF UseParallelRca(ag, t.text) /\ t.session_id = <<"s", "1">> THEN "rca" ELSE "main",
        !.pc = IF UseParallelRca(ag, t.text) /\ t.session_id = <<"s", "1">> THEN "rca" ELSE "main",
        !.branches = IF UseParallelRca(ag, t.text) /\ t.session_id = <<"s", "1">>
                     THEN [n \in Range(ag.sub_agents) |->
                             [pc |-> "running", returned |-> None, calls |-> <<>>,
                              raised |-> FALSE]]
                     ELSE EmptyDict,
        !.saved = Append(@, [role |-> "user", content |-> t.text]),
        !.log = @ \o <<"save_user", "call_runtime">>]

Routed(t, ag) ==
    [t EXCEPT
        !.dest = IF UseParallelRca(ag, t.text) THEN "rca" ELSE "main",
        !.pc = IF UseParallelRca(ag, t.text) THEN "rca" ELSE "main",
        !.branches = IF UseParallelRca(ag, t.text)
                     THEN [n \in Range(ag.sub_agents) |->
                             [pc |-> "running", returned |-> None, calls |-> <<>>,
                              raised |-> FALSE]]
                     ELSE EmptyDict,
        !.saved = Append(@, [role |-> "user", content |-> t.text]),
        !.log = @ \o <<"save_user", "call_runtime">>]

RuntimeSessionsOf(t, ag) ==
    IF UseParallelRca(ag, t.text)
    THEN { <<t.user_id, SubSessionId(t.session_id, n)>> : n \in Range(ag.sub_agents) }
    ELSE { <<t.user_id, t.session_id>> }

(***************************************************************************)
(* Inputs of the store's methods.                                          *)
(***************************************************************************)
S_s1 == <<"s", "1">>
S_s2 == <<"s", "2">>
S_sub == <<"d", "/", "x">>

\* Two plain ids, and an id under a directory that does not exist.
SessionIds == {S_s1, S_s2, S_sub}

UserIds == {"u1", "u2"}

\* The messages given to add_message: a user message that is empty, one of
\* exactly TitleLimit characters and one of one more, and an assistant message.
Messages ==
    {[role |-> "user", content |-> <<>>],
     [role |-> "user", content |-> Rep("a", TitleLimit)],
     [role |-> "user", content |-> Rep("b", TitleLimit + 1)],
     [role |-> "assistant", content |-> Rep("c", TitleLimit + 1)]}

(***************************************************************************)
(* SpecStore: the store's methods called one after the other, as the       *)
(* session endpoints and the agent call them, and process restarts.        *)
(***************************************************************************)
InitStore ==
    /\ cache = EmptyDict
    /\ files = EmptyDict
    /\ clock = 0
    /\ last = [op |-> "init", id |-> <<>>, ret |-> FALSE]
    /\ adds = 0
    /\ appended = [id \in SessionIds |-> <<>>]
    /\ config = <<>>
    /\ agent = NoAgent
    /\ turn = [r \in 1..MaxInFlight |-> IdleTurn]
    /\ started = 0
    /\ runtime_sessions = {}

SAddMessage(id, role, content, user) ==
    /\ adds < MaxAdds
    /\ \E now \in NowReadings(clock, 4) :
          LET creates == get_session(cache, files, id).ret = None
              r == add_message(cache, files, id, role, content, user, now)
          IN  /\ creates \/ now[2] = clock
              /\ cache' = r.cache
              /\ files' = r.files
              /\ clock' = now[4]
              /\ last' = [op |-> "add_message", id |-> id, ret |-> TRUE]
              /\ appended' = [appended EXCEPT ![id] =
                    Append(IF creates THEN <<>> ELSE @,
                           [role |-> role, content |-> content,
                            timestamp |-> isoformat(now[3])])]
    /\ adds' = adds + 1
    /\ UNCHANGED orchVars

SGetSession(id) ==
    /\ cache' = get_session(cache, files, id).cache
    /\ UNCHANGED <<files, clock, last, adds, appended, orchVars>>

SDeleteSession(id) ==
    /\ LET r == delete_session(cache, files, id)
       IN  /\ cache' = r.cache
           /\ files' = r.files
           /\ last' = [op |-> "delete_session", id |-> id, ret |-> r.ret]
    /\ appended' = [appended EXCEPT ![id] = <<>>]
    /\ UNCHANGED <<clock, adds, orchVars>>

\* The process stops and starts again: the cache is lost, the files are kept.
SRestart ==
    /\ cache' = EmptyDict
    /\ last' = [op |-> "restart", id |-> <<>>, ret |-> TRUE]
    /\ UNCHANGED <<files, clock, adds, appended, orchVars>>

NextStore ==
    \/ \E id \in SessionIds, m \in Messages, user \in UserIds :
          SAddMessage(id, m.role, m.content, user)
    \/ \E id \in SessionIds : SGetSession(id)
    \/ \E id \in SessionIds : SDeleteSession(id)
    \/ SRestart

vars == <<storeVars, orchVars>>

SpecStore == InitStore /\ [][NextStore]_vars

(***************************************************************************)
(* SpecCrash: SpecStore with a process that may die inside save_session.   *)
(* open(session_file, "w") has emptied the file and json.dump has written  *)
(* a part of the new text at most: the file is left with a text that does  *)
(* not parse, and the cache is lost with the process.                      *)
(***************************************************************************)
\* The files when the process dies in save_session after open().
save_session_interrupted(f, session) ==
    LET r == Resolve(session_file(session.session_id))
    IN  IF r.ok THEN Put(f, r.path, Corrupt) ELSE f

\* add_message by a process that dies in its last save_session.
SCrashInSave(id, role, content, user) ==
    /\ adds < MaxAdds
    /\ \E now \in NowReadings(clock, 4) :
          LET got == get_session(cache, files, id)
              had == IF got.ret = None
                     THEN create_session(got.cache, files, id, user, now[1], now[2])
                     ELSE [cache |-> got.cache, files |-> files, ret |-> got.ret]
              session == SessionData_add_message(had.ret, role, content, now[3], now[4])
          IN  /\ got.ret = None \/ now[2] = clock
              /\ files' = save_session_interrupted(had.files, session)
              /\ clock' = now[4]
    /\ cache' = EmptyDict
    /\ last' = [op |-> "crash", id |-> id, ret |-> FALSE]
    /\ adds' = adds + 1
    /\ UNCHANGED <<appended, orchVars>>

NextCrash ==
    \/ \E id \in SessionIds, m \in Messages, user \in UserIds :
          \/ SAddMessage(id, m.role, m.content, user)
          \/ SCrashInSave(id, m.role, m.content, user)
    \/ \E id \in SessionIds : SGetSession(id)
    \/ \E id \in SessionIds : SDeleteSession(id)
    \/ SRestart

SpecCrash == InitStore /\ [][NextCrash]_vars

(***************************************************************************)
(* SpecPaths: the store's methods called with a session id that has a path *)
(* separator, next to an ordinary one.                                     *)
(***************************************************************************)
S_up == <<".", ".", "/", "x">>

PathIds == {S_s1, S_up}

InitPaths ==
    /\ cache = EmptyDict
    /\ files = EmptyDict
    /\ clock = 0
    /\ last = [op |-> "init", id |-> <<>>, ret |-> FALSE]
    /\ adds = 0
    /\ appended = [id \in PathIds |-> <<>>]
    /\ config = <<>>
    /\ agent = NoAgent
    /\ turn = [r \in 1..MaxInFlight |-> IdleTurn]
    /\ started = 0
    /\ runtime_sessions = {}

NextPaths ==
    \/ \E id \in PathIds, m \in Messages, user \in UserIds :
          SAddMessage(id, m.role, m.content, user)
    \/ \E id \in PathIds : SGetSession(id)
    \/ \E id \in PathIds : SDeleteSession(id)
    \/ SRestart

SpecPaths == InitPaths /\ [][NextPaths]_vars

(***************************************************************************)
(* Spec: the service.  The lifespan handler initializes the agent; then    *)
(* turns are served.  Python runs a handler without interruption between   *)
(* two awaits that suspend it, so a step of a turn goes from one frame     *)
(* given to the client, or one event awaited from a runtime, to the next.  *)
(***************************************************************************)
Slots == 1..MaxInFlight

Texts == {S_hi, S_app_down, S_jenkins_failed, S_k8s}

TurnSessionIds == {S_s1}

TurnUserIds == {"u1"}

Configs ==
    { <<>>, <<S_jenkins>>, <<S_jenkins, S_kubernetes>>, <<S_kubernetes, S_jenkins>> }

PeerNames == UNION { Range(c) : c \in Configs }

Init ==
    /\ cache = EmptyDict
    /\ files = EmptyDict
    /\ clock = 0
    /\ last = [op |-> "init", id |-> <<>>, ret |-> FALSE]
    /\ adds = 0
    /\ appended = [id \in SessionIds |-> <<>>]
    /\ config \in Configs
    /\ agent = NoAgent
    /\ turn = [r \in Slots |-> IdleTurn]
    /\ started = 0
    /\ runtime_sessions = {}

\* main.py lifespan: create_orchestrator_agent, which calls initialize.
Initialize ==
    /\ ~agent.agent
    /\ agent' = initialize(config)
    /\ UNCHANGED <<storeVars, config, turn, started, runtime_sessions>>

CanStart(r) ==
    /\ agent.agent
    /\ turn[r].pc \in {"idle", "done", "cancelled"}
    /\ started < MaxTurns

\* The store after the turn t has saved a message, and the turn after it.
SaveMessage(r, t, role, content) ==
    \E st \in StoreAdd(cache, files, clock, t.session_id, role, content, t.user_id) :
        /\ cache' = st.cache
        /\ files' = st.files
        /\ clock' = st.clock
        /\ turn' = [turn EXCEPT ![r] = t]

\* POST /chat up to the call of the runtime: main.chat and agent.chat.
ChatStart(r, text, session_id, user_id) ==
    /\ CanStart(r)
    /\ LET t == [IdleTurn EXCEPT !.kind = "chat", !.text = text,
                                 !.user_id = user_id, !.session_id = session_id]
       IN  /\ SaveMessage(r, Routed(t, agent), "user", text)
           /\ runtime_sessions' = runtime_sessions \cup RuntimeSessionsOf(t, agent)
    /\ started' = started + 1
    /\ UNCHANGED <<last, adds, appended, config, agent>>

\* POST /chat/stream up to the first frame of generate.
StreamOpen(r, text, session_id, user_id) ==
    /\ CanStart(r)
    /\ turn' = [turn EXCEPT ![r] =
                  [IdleTurn EXCEPT !.pc = "open", !.kind = "stream", !.text = text,
                                   !.user_id = user_id, !.session_id = session_id,
                                   !.frames = <<StatusFrame(S_processing)>>]]
    /\ started' = started + 1
    /\ UNCHANGED <<storeVars, config, agent, runtime_sessions>>

\* agent.chat_stream up to its status line.
StreamBegin(r) ==
    /\ turn[r].pc = "open"
    /\ LET t == [turn[r] EXCEPT
                    !.frames = Append(@, StatusFrame(RouteStatus(agent, turn[r].text)))]
       IN  /\ SaveMessage(r, Routed(t, agent), "user", t.text)
           /\ runtime_sessions' = runtime_sessions \cup RuntimeSessionsOf(t, agent)
    /\ UNCHANGED <<last, adds, appended, config, agent, started>>

\* One event of the Main Agent's runtime (_single_agent_chat_stream and
\* its consumers: _single_agent_chat, or chat_stream and generate).
MainEvent(r, ev) ==
    /\ turn[r].pc = "main"
    /\ turn[r].nev < MaxEvents
    /\ turn' = [turn EXCEPT ![r] =
                  [@ EXCEPT
                      !.nev = @ + 1,
                      !.calls = @ \o CallsOf(<<ev>>),
                      !.parts = @ \o FinalTexts(ev),
                      !.out_parts = IF turn[r].kind = "stream" THEN @ \o FinalTexts(ev) ELSE @,
                      !.frames = IF turn[r].kind = "stream" THEN @ \o ToolCallFrames(ev) ELSE @]]
    /\ UNCHANGED <<storeVars, config, agent, started, runtime_sessions>>

\* The end of agent.chat and of main.chat once the response is known.
ChatReturn(r, t, response) ==
    SaveMessage(r,
        [t EXCEPT !.pc = "done",
                  !.response = ChatResponse(response, t.user_id, t.session_id),
                  !.saved = Append(@, [role |-> "assistant", content |-> response]),
                  !.log = @ \o <<"runtime_returned", "save_assistant">>],
        "assistant", response)

\* The end of agent.chat_stream and of generate.
StreamReturn(r, t) ==
    LET complete == CompleteFrame(
                        IF t.out_parts # <<>> THEN Concat(t.out_parts) ELSE S_no_response,
                        t.user_id, t.session_id)
    IN  IF t.parts # <<>>
        THEN SaveMessage(r,
                [t EXCEPT !.pc = "done",
                          !.frames = Append(@, complete),
                          !.saved = Append(@, [role |-> "assistant", content |-> Concat(t.parts)]),
                          !.log = @ \o <<"runtime_returned", "save_assistant">>],
                "assistant", Concat(t.parts))
        ELSE /\ turn' = [turn EXCEPT ![r] =
                           [t EXCEPT !.pc = "done",
                                     !.frames = Append(@, complete),
                                     !.log = @ \o <<"runtime_returned">>]]
             /\ UNCHANGED <<cache, files, clock>>

\* The Main Agent's runtime has no more event.
MainEnd(r) ==
    /\ turn[r].pc = "main"
    /\ IF turn[r].kind # "stream"
       THEN ChatReturn(r, turn[r],
                IF turn[r].parts # <<>> THEN Concat(turn[r].parts) ELSE S_no_response)
       ELSE StreamReturn(r, turn[r])
    /\ UNCHANGED <<last, adds, appended, config, agent, started, runtime_sessions>>

\* The Main Agent's runtime raises: _single_agent_chat_stream yields an
\* error event, which _single_agent_chat drops and generate sends.
MainRaise(r) ==
    /\ turn[r].pc = "main"
    /\ IF turn[r].kind # "stream"
       THEN ChatReturn(r, [turn[r] EXCEPT !.raised = TRUE],
                IF turn[r].parts # <<>> THEN Concat(turn[r].parts) ELSE S_no_response)
       ELSE /\ turn' = [turn EXCEPT ![r] =
                          [@ EXCEPT !.pc = "closing", !.raised = TRUE,
                                    !.frames = Append(@, ErrorFrame(S_boom))]]
            /\ UNCHANGED <<cache, files, clock>>
    /\ UNCHANGED <<last, adds, appended, config, agent, started, runtime_sessions>>

\* chat_stream and generate after the error frame.
StreamClose(r) ==
    /\ turn[r].pc = "closing"
    /\ StreamReturn(r, turn[r])
    /\ UNCHANGED <<last, adds, appended, config, agent, started, runtime_sessions>>

\* Whether the runtime raises in a run of _run_sub_agent_rca, and the
\* events the loop reads.
RunRaises(run) ==
    run.ending = "raise" /\ \A i \in DOMAIN run.events : ~run.events[i].final

EventsRead(run) ==
    IF \E i \in DOMAIN run.events : run.events[i].final
    THEN SubSeq(run.events, 1, CHOOSE i \in DOMAIN run.events :
                                   /\ run.events[i].final
                                   /\ \A j \in 1..(i - 1) : ~run.events[j].final)
    ELSE run.events

\* The tasks of gather once the task of name has ended with outcome: each
\* task runs on its own and ends only by its own return.
Finished_CancelsOthers(branches, name, outcome) ==
    [n \in DOMAIN branches |->
        IF n = name THEN outcome
        ELSE IF outcome.raised /\ branches[n].pc = "running"
             THEN [pc |-> "done", returned |-> [exception |-> TRUE, value |-> <<>>],
                   calls |-> <<>>, raised |-> TRUE]
             ELSE branches[n]]

Finished(branches, name, outcome) == [branches EXCEPT ![name] = outcome]

\* One task of _parallel_rca runs to its end.
BranchFinish(r, name, run) ==
    /\ turn[r].pc = "rca"
    /\ name \in DOMAIN turn[r].branches
    /\ turn[r].branches[name].pc = "running"
    /\ turn' = [turn EXCEPT ![r] =
                  [@ EXCEPT
                      !.branches = Finished(@, name,
                          [pc |-> "done", returned |-> _run_sub_agent_rca(run),
                           calls |-> CallsOf(EventsRead(run)), raised |-> RunRaises(run)]),
                      !.done_order = Append(@, name)]]
    /\ UNCHANGED <<storeVars, config, agent, started, runtime_sessions>>

\* gather returns: _parallel_rca builds the report and the turn ends.
RcaJoin(r) ==
    /\ turn[r].pc = "rca"
    /\ \A n \in DOMAIN turn[r].branches : turn[r].branches[n].pc = "done"
    /\ LET report == _parallel_rca(turn[r].text, agent.sub_agents,
                        [n \in DOMAIN turn[r].branches |-> turn[r].branches[n].returned],
                        turn[r].done_order)
       IN  IF turn[r].kind # "stream"
           THEN ChatReturn(r, turn[r], report)
           ELSE StreamReturn(r, [turn[r] EXCEPT !.parts = <<report>>, !.out_parts = <<report>>])
    /\ UNCHANGED <<last, adds, appended, config, agent, started, runtime_sessions>>

Next ==
    \/ Initialize
    \/ \E r \in Slots, text \in Texts, id \in TurnSessionIds, user \in TurnUserIds :
          \/ ChatStart(r, text, id, user)
          \/ StreamOpen(r, text, id, user)
    \/ \E r \in Slots : StreamBegin(r)
    \/ \E r \in Slots, ev \in Events : MainEvent(r, ev)
    \/ \E r \in Slots : MainEnd(r)
    \/ \E r \in Slots : MainRaise(r)
    \/ \E r \in Slots : StreamClose(r)
    \/ \E r \in Slots, name \in PeerNames, run \in Runs : BranchFinish(r, name, run)
    \/ \E r \in Slots : RcaJoin(r)

Spec == Init /\ [][Next]_vars

(***************************************************************************)
(* SpecApi: the three chat endpoints of main.py with the Main Agent's      *)
(* runtime, for requests whose text may be empty and whose session may not *)
(* exist.                                                                  *)
(***************************************************************************)
HttpError(status) == [status |-> status]

ApiTexts == {<<>>, S_hi}

ApiSessionIds == {S_s1, S_s2}

\* resume_session: the test "session is None".
SessionMissing_Never(session) == FALSE

SessionMissing(session) == session = None

\* POST /sessions/{session_id}/resume up to the call of the runtime:
\* resume_session, then agent.chat with the user id of the stored session.
ResumeStart(r, text, session_id) ==
    /\ CanStart(r)
    /\ LET g == get_session(cache, files, session_id)
           t == [IdleTurn EXCEPT !.kind = "resume", !.text = text,
                                 !.session_id = session_id,
                                 !.user_id = IF g.ret = None THEN "none" ELSE g.ret.user_id]
       IN  IF SessionMissing(g.ret)
           THEN /\ turn' = [turn EXCEPT ![r] =
                              [t EXCEPT !.pc = "done", !.response = HttpError(404)]]
                /\ cache' = g.cache
                /\ UNCHANGED <<files, clock, runtime_sessions>>
           ELSE /\ SaveMessage(r, Routed(t, agent), "user", text)
                /\ runtime_sessions' = runtime_sessions \cup RuntimeSessionsOf(t, agent)
    /\ started' = started + 1
    /\ UNCHANGED <<last, adds, appended, config, agent>>

\* The turn of a stream whose client has gone: the server closes the
\* generators where they are suspended (GeneratorExit or CancelledError,
\* which no "except Exception" of generate, chat_stream or
\* _single_agent_chat_stream catches), so nothing after the suspension
\* point runs.
Cancelled_Ignored(t) == [t EXCEPT !.log = Append(@, "disconnect")]

Cancelled(t) == [t EXCEPT !.pc = "cancelled", !.log = Append(@, "disconnect")]

\* The client of a stream disconnects while the turn is suspended.
Disconnect(r) ==
    /\ turn[r].kind = "stream"
    /\ turn[r].pc \in {"open", "main", "closing", "rca"}
    /\ "disconnect" \notin Range(turn[r].log)
    /\ turn' = [turn EXCEPT ![r] = Cancelled(turn[r])]
    /\ UNCHANGED <<storeVars, config, agent, started, runtime_sessions>>

NextApi ==
    \/ Initialize
    \/ \E r \in Slots, text \in ApiTexts, id \in ApiSessionIds, user \in TurnUserIds :
          \/ ChatStart(r, text, id, user)
          \/ StreamOpen(r, text, id, user)
          \/ ResumeStart(r, text, id)
    \/ \E r \in Slots : StreamBegin(r)
    \/ \E r \in Slots, ev \in Events : MainEvent(r, ev)
    \/ \E r \in Slots : MainEnd(r)
    \/ \E r \in Slots : MainRaise(r)
    \/ \E r \in Slots : StreamClose(r)
    \/ \E r \in Slots : Disconnect(r)

SpecApi == Init /\ [][NextApi]_vars

(***************************************************************************)
(* SpecStartup: the start of the service with peers that may fail their    *)
(* handshake, and the first request after it.  A peer is "up", gives       *)
(* "no_connection" (_connect_mcp_server raises), is "down" (every          *)
(* get_tools() raises), "flaky" (only the first get_tools() raises),       *)
(* has a "lapse" (only the second get_tools() raises) or is up with        *)
(* "no_tools" to advertise.                                                *)
(* The variable last records the peers the service was started with.       *)
(***************************************************************************)
MaxStartupTurns == 1

PeerStates == {"up", "no_connection", "down", "flaky", "lapse", "no_tools"}

Peers == [PeerNames -> PeerStates]

\* _connect_mcp_server(server_config) returns a toolset.
Connects(peer) == peer # "no_connection"

\* The n-th call of toolset.get_tools() on a peer returns the tools.
GetToolsReturns(peer, n) ==
    \/ peer \in {"up", "no_tools"}
    \/ peer = "flaky" /\ n > 1
    \/ peer = "lapse" /\ n # 2

\* The tools toolset.get_tools() returns for the peer of that name.
get_tools(name, peer) ==
    IF peer = "no_tools" THEN <<>> ELSE <<[peer |-> name, name |-> S_list_jobs]>>

\* initialize: all_tools, the tools of every stored toolset.
all_tools(mcp_toolsets, peers) ==
    LET upto[i \in 0..Len(mcp_toolsets)] ==
            IF i = 0 THEN <<>>
            ELSE upto[i - 1] \o get_tools(mcp_toolsets[i], peers[mcp_toolsets[i]])
    IN  upto[Len(mcp_toolsets)]

\* _load_mcp_tools: the toolset is stored before the first get_tools().
_load_mcp_tools(servers, peers) == SelectSeq(servers, LAMBDA name : Connects(peers[name]))

\* _create_sub_agents: the second get_tools(), in a try of its own.
_create_sub_agents(mcp_toolsets, peers) ==
    SelectSeq(mcp_toolsets, LAMBDA name : GetToolsReturns(peers[name], 2))

\* initialize reads the tools of every stored toolset with no try around
\* the third get_tools().
InitializeRaises_Never(mcp_toolsets, peers) == FALSE

InitializeRaises(mcp_toolsets, peers) ==
    \E i \in DOMAIN mcp_toolsets : ~GetToolsReturns(peers[mcp_toolsets[i]], 3)

\* lifespan: _agent is the initialised agent, or None when
\* create_orchestrator_agent raised.
lifespan(servers, peers) ==
    LET mcp_toolsets == _load_mcp_tools(servers, peers)
        sub_agents == _create_sub_agents(mcp_toolsets, peers)
    IN  IF InitializeRaises(mcp_toolsets, peers)
        THEN NoAgent
        ELSE [agent |-> TRUE, mcp_toolsets |-> mcp_toolsets, sub_agents |-> sub_agents,
              parallel_rca_agent |-> Len(sub_agents) > 1,
              tools |-> all_tools(mcp_toolsets, peers),
              sub_tools |-> [name \in Range(sub_agents) |-> get_tools(name, peers[name])]]

Startup(peers) ==
    /\ last.op = "init"
    /\ agent' = lifespan(config, peers)
    /\ last' = [op |-> "lifespan", id |-> <<>>, ret |-> peers]
    /\ UNCHANGED <<cache, files, clock, adds, appended, config, turn, started,
                   runtime_sessions>>

\* POST /chat while _agent is None.
ChatUnavailable(r, text, session_id, user_id) ==
    /\ last.op = "lifespan"
    /\ ~agent.agent
    /\ turn[r].pc \in {"idle", "done"}
    /\ started < MaxStartupTurns
    /\ turn' = [turn EXCEPT ![r] =
                  [IdleTurn EXCEPT !.pc = "done", !.kind = "chat", !.text = text,
                                   !.user_id = user_id, !.session_id = session_id,
                                   !.response = HttpError(503)]]
    /\ started' = started + 1
    /\ UNCHANGED <<storeVars, config, agent, runtime_sessions>>

\* POST /chat once the agent is there.
FirstChat(r, text, session_id, user_id) ==
    /\ started < MaxStartupTurns
    /\ ChatStart(r, text, session_id, user_id)

NextStartup ==
    \/ \E peers \in Peers : Startup(peers)
    \/ \E r \in Slots, text \in Texts, id \in TurnSessionIds, user \in TurnUserIds :
          \/ FirstChat(r, text, id, user)
          \/ ChatUnavailable(r, text, id, user)
    \/ \E r \in Slots, ev \in Events : MainEvent(r, ev)
    \/ \E r \in Slots : MainEnd(r)
    \/ \E r \in Slots : MainRaise(r)
    \/ \E r \in Slots, name \in PeerNames, run \in Runs : BranchFinish(r, name, run)
    \/ \E r \in Slots : RcaJoin(r)

SpecStartup == Init /\ [][NextStartup]_vars

(***************************************************************************)
(* SpecRouter: _is_platform_specific_query applied to the texts of up to   *)
(* MaxWords words, under every configuration.  The variable last records   *)
(* the text and the value returned.                                        *)
(***************************************************************************)
MaxWords == 2

RouterWords ==
    { <<"p", "o", "d", "c", "a", "s", "t">>,
      <<"p", "o", "d">>,
      <<"p", "i", "p", "e", "l", "i", "n", "e">>,
      <<"K", "8", "s">>,
      <<"J", "e", "n", "k", "i", "n", "s">>,
      <<"h", "e", "l", "p">> }

Queries ==
    { Join(ws, <<" ">>) : ws \in UNION { [1..n -> RouterWords] : n \in 0..MaxWords } }

Classify(query) ==
    /\ last' = [op |-> "_is_platform_specific_query", id |-> query,
                ret |-> _is_platform_specific_query(query)]
    /\ UNCHANGED <<cache, files, clock, adds, appended, orchVars>>

NextRouter == \E query \in Queries : Classify(query)

SpecRouter == Init /\ [][NextRouter]_vars

(***************************************************************************)
(* SpecRouting: two requests served by one orchestrator, at most           *)
(* MaxInFlight at a time, with any session and user ids.  The runtime      *)
(* answers with its final event at once and the specialists' runs yield no *)
(* event, which leaves the route of a turn as it is.                       *)
(***************************************************************************)
MaxRouted == 2

RoutingSlots == 1..MaxRouted

\* The texts of the requests: no incident, an incident, an incident of one
\* platform.
RoutingTexts == {S_hi, S_app_down, S_jenkins_failed}

\* The session and the user of a request.
RoutingClients == {[session_id |-> S_s1, user_id |-> "u1"], [session_id |-> S_s2, user_id |-> "u2"]}

RoutingRuns == {run \in Runs : run.events = <<>>}

InitRouting ==
    /\ cache = EmptyDict
    /\ files = EmptyDict
    /\ clock = 0
    /\ last = [op |-> "init", id |-> <<>>, ret |-> FALSE]
    /\ adds = 0
    /\ appended = [id \in SessionIds |-> <<>>]
    /\ config \in Configs
    /\ agent = NoAgent
    /\ turn = [r \in RoutingSlots |-> IdleTurn]
    /\ started = 0
    /\ runtime_sessions = {}

\* The requests being served.
InFlight == {r \in DOMAIN turn : turn[r].pc \notin {"idle", "done", "cancelled"}}

RoutingChat(r, text, session_id, user_id) ==
    /\ Cardinality(InFlight) < MaxInFlight
    /\ ChatStart(r, text, session_id, user_id)

RoutingStream(r, text, session_id, user_id) ==
    /\ Cardinality(InFlight) < MaxInFlight
    /\ StreamOpen(r, text, session_id, user_id)

NextRouting ==
    \/ Initialize
    \/ \E r \in RoutingSlots, text \in RoutingTexts, client \in RoutingClients :
          \/ RoutingChat(r, text, client.session_id, client.user_id)
          \/ RoutingStream(r, text, client.session_id, client.user_id)
    \/ \E r \in RoutingSlots : StreamBegin(r)
    \/ \E r \in RoutingSlots, ev \in {FinalEv} : MainEvent(r, ev)
    \/ \E r \in RoutingSlots : MainEnd(r)
    \/ \E r \in RoutingSlots : MainRaise(r)
    \/ \E r \in RoutingSlots : StreamClose(r)
    \/ \E r \in RoutingSlots, name \in PeerNames, run \in RoutingRuns : BranchFinish(r, name, run)
    \/ \E r \in RoutingSlots : RcaJoin(r)

SpecRouting == InitRouting /\ [][NextRouting]_vars

(***************************************************************************)
(* SpecConcurrent: MaxConcurrent requests on one session id, each in a     *)
(* slot of its own, served at the same time: their steps interleave at the *)
(* awaits of the handlers.  A store call has no await and is one step.     *)
(***************************************************************************)
MaxConcurrent == 2

ConcurrentSlots == 1..MaxConcurrent

ConcurrentTexts == {S_hi, S_app_down}

InitConcurrent ==
    /\ cache = EmptyDict
    /\ files = EmptyDict
    /\ clock = 0
    /\ last = [op |-> "init", id |-> <<>>, ret |-> FALSE]
    /\ adds = 0
    /\ appended = [id \in SessionIds |-> <<>>]
    /\ config \in Configs
    /\ agent = NoAgent
    /\ turn = [r \in ConcurrentSlots |-> IdleTurn]
    /\ started = 0
    /\ runtime_sessions = {}

ConcurrentChat(r, text, session_id, user_id) ==
    /\ turn[r].kind = "none"
    /\ ChatStart(r, text, session_id, user_id)

ConcurrentStream(r, text, session_id, user_id) ==
    /\ turn[r].kind = "none"
    /\ StreamOpen(r, text, session_id, user_id)

NextConcurrent ==
    \/ Initialize
    \/ \E r \in ConcurrentSlots, text \in ConcurrentTexts, id \in TurnSessionIds, user \in TurnUserIds :
          \/ ConcurrentChat(r, text, id, user)
          \/ ConcurrentStream(r, text, id, user)
    \/ \E r \in ConcurrentSlots : StreamBegin(r)
    \/ \E r \in ConcurrentSlots, ev \in {FinalEv} : MainEvent(r, ev)
    \/ \E r \in ConcurrentSlots : MainEnd(r)
    \/ \E r \in ConcurrentSlots : MainRaise(r)
    \/ \E r \in ConcurrentSlots : StreamClose(r)
    \/ \E r \in ConcurrentSlots, name \in PeerNames, run \in RoutingRuns : BranchFinish(r, name, run)
    \/ \E r \in ConcurrentSlots : RcaJoin(r)

SpecConcurrent == InitConcurrent /\ [][NextConcurrent]_vars

(***************************************************************************)
(* SpecIsolation: the requests of SpecRouting, of one user, with a caller  *)
(* session id that ends in "_" and the name of a peer next to the id it    *)
(* extends.                                                                *)
(***************************************************************************)
IsolationTexts == {S_hi, S_app_down}

IsolationSessionIds == {S_s1, SubSessionId(S_s1, S_jenkins)}

NextIsolation ==
    \/ Initialize
    \/ \E r \in RoutingSlots, text \in IsolationTexts, id \in IsolationSessionIds, user \in TurnUserIds :
          \/ RoutingChat(r, text, id, user)
          \/ RoutingStream(r, text, id, user)
    \/ \E r \in RoutingSlots : StreamBegin(r)
    \/ \E r \in RoutingSlots, ev \in {FinalEv} : MainEvent(r, ev)
    \/ \E r \in RoutingSlots : MainEnd(r)
    \/ \E r \in RoutingSlots : MainRaise(r)
    \/ \E r \in RoutingSlots : StreamClose(r)
    \/ \E r \in RoutingSlots, name \in PeerNames, run \in RoutingRuns : BranchFinish(r, name, run)
    \/ \E r \in RoutingSlots : RcaJoin(r)

SpecIsolation == InitRouting /\ [][NextIsolation]_vars

(***************************************************************************)
(* SpecDelete: the chat endpoints of SpecApi on one session id, and        *)
(* DELETE /sessions/{id}, which may be served while a turn is waiting for  *)
(* its runtime.                                                            *)
(***************************************************************************)
\* DELETE /sessions/{session_id}
ApiDeleteSession(session_id) ==
    /\ LET r == delete_session(cache, files, session_id)
       IN  /\ cache' = r.cache
           /\ files' = r.files
           /\ last' = [op |-> "delete_session", id |-> session_id, ret |-> r.ret]
    /\ UNCHANGED <<clock, adds, appended, orchVars>>

NextDelete ==
    \/ Initialize
    \/ \E r \in Slots, text \in ApiTexts, id \in TurnSessionIds, user \in TurnUserIds :
          \/ ChatStart(r, text, id, user)
          \/ StreamOpen(r, text, id, user)
          \/ ResumeStart(r, text, id)
    \/ \E r \in Slots : StreamBegin(r)
    \/ \E r \in Slots, ev \in Events : MainEvent(r, ev)
    \/ \E r \in Slots : MainEnd(r)
    \/ \E r \in Slots : MainRaise(r)
    \/ \E r \in Slots : StreamClose(r)
    \/ \E id \in TurnSessionIds : ApiDeleteSession(id)

SpecDelete == Init /\ [][NextDelete]_vars

(***************************************************************************)
(* SpecJenkins: AsyncJenkinsClient._make_request of the Jenkins server, one *)
(* call at a time.  `last` holds the call: its method, the max_retries of   *)
(* the configuration, the loop index `attempt`, the responses of the HTTP   *)
(* attempts made so far, the sleeps taken and how the call ended.           *)
(***************************************************************************)
MaxRetries == 2

\* JenkinsConfig.max_retries after validate_max_retries: never negative.
RetryConfigs == 0..MaxRetries

\* The methods the client's own callers pass (get_json, get_text,
\* post_json, post_form, post_xml).
RequestMethods == {"GET", "POST"}

StatusCodes == {200, 302, 400, 401, 403, 404, 500, 503}

\* What one awaited call of httpx.AsyncClient gives: a response, or an
\* httpx.RequestError (connection failure, timeout).
HttpOutcomes ==
    [kind : {"response"}, status_code : StatusCodes]
        \cup {[kind |-> "RequestError", status_code |-> 0]}

JenkinsErrors ==
    {"JenkinsAuthenticationError", "JenkinsPermissionError", "JenkinsNotFoundError",
     "JenkinsConnectionError", "JenkinsBuildError"}

\* Lines 96-119 with every 4xx and 5xx response retried: a variant of
\* _make_request_handle.
_make_request_handle_RetryAllErrors(got, attempt, max_retries) ==
    IF got.kind = "RequestError" \/ got.status_code >= 400
    THEN IF attempt < max_retries
         THEN [pc |-> "sleep", error |-> ""]
         ELSE [pc |-> "raised", error |-> "JenkinsConnectionError"]
    ELSE [pc |-> "returned", error |-> ""]

\* Lines 96-119: what the loop body does with the outcome of the HTTP call.
_make_request_handle(got, attempt, max_retries) ==
    IF got.kind = "RequestError"
    THEN IF attempt < max_retries
         THEN [pc |-> "sleep", error |-> ""]
         ELSE [pc |-> "raised", error |-> "JenkinsConnectionError"]
    ELSE IF got.status_code = 401
    THEN [pc |-> "raised", error |-> "JenkinsAuthenticationError"]
    ELSE IF got.status_code = 403
    THEN [pc |-> "raised", error |-> "JenkinsPermissionError"]
    ELSE IF got.status_code = 404
    THEN [pc |-> "raised", error |-> "JenkinsNotFoundError"]
    ELSE IF got.status_code >= 500
    THEN IF attempt < max_retries
         THEN [pc |-> "sleep", error |-> ""]
         ELSE [pc |-> "raised", error |-> "JenkinsConnectionError"]
    ELSE IF got.status_code >= 400
    THEN [pc |-> "raised", error |-> "JenkinsBuildError"]
    ELSE [pc |-> "returned", error |-> ""]

\* `for attempt in range(max_retries + 1)`: the body runs for `attempt`, or
\* the loop is over and line 121 raises.
LoopEnters(call, attempt) ==
    IF attempt < call.max_retries + 1
    THEN [call EXCEPT !.attempt = attempt, !.pc = "request"]
    ELSE [call EXCEPT !.attempt = attempt, !.pc = "raised",
                      !.error = "JenkinsConnectionError"]

NoCall ==
    [op |-> "_make_request", method |-> "", max_retries |-> 0, attempt |-> 0,
     pc |-> "idle", responses |-> <<>>, slept |-> <<>>, error |-> ""]

InitJenkins ==
    /\ cache = EmptyDict
    /\ files = EmptyDict
    /\ clock = 0
    /\ last = NoCall
    /\ adds = 0
    /\ appended = [id \in SessionIds |-> <<>>]
    /\ config = <<>>
    /\ agent = NoAgent
    /\ turn = [r \in 1..MaxInFlight |-> IdleTurn]
    /\ started = 0
    /\ runtime_sessions = {}

\* A caller awaits _make_request(method, path): lines 70-75.
MakeRequestCall(method, max_retries) ==
    /\ last.pc \in {"idle", "returned", "raised"}
    /\ last' = LoopEnters([NoCall EXCEPT !.method = method,
                                         !.max_retries = max_retries], 0)
    /\ UNCHANGED <<cache, files, clock, adds, appended, orchVars>>

\* One pass of the loop body, lines 76-119: the HTTP call and what follows.
\* A method the body does not know raises ValueError before any HTTP call.
MakeRequestAttempt(got) ==
    /\ last.pc = "request"
    /\ IF last.method \in {"GET", "POST", "PUT", "DELETE"}
       THEN LET h == _make_request_handle(got, last.attempt, last.max_retries)
            IN  last' = [last EXCEPT
                   !.responses = Append(@, got),
                   !.pc = h.pc,
                   !.error = h.error,
                   !.slept = IF h.pc = "sleep" THEN Append(@, 2 ^ last.attempt) ELSE @]
       ELSE last' = [last EXCEPT !.pc = "raised", !.error = "ValueError"]
    /\ UNCHANGED <<cache, files, clock, adds, appended, orchVars>>

\* asyncio.sleep(2 ** attempt) is over and `continue` takes the next index.
MakeRequestContinue ==
    /\ last.pc = "sleep"
    /\ last' = LoopEnters(last, last.attempt + 1)
    /\ UNCHANGED <<cache, files, clock, adds, appended, orchVars>>

NextJenkins ==
    \/ \E method \in RequestMethods, max_retries \in RetryConfigs :
          MakeRequestCall(method, max_retries)
    \/ \E got \in HttpOutcomes : MakeRequestAttempt(got)
    \/ MakeRequestContinue

\* Every HTTP call ends, by httpx.Timeout(config.timeout) at the latest, and
\* so does every sleep.
SpecJenkins ==
    /\ InitJenkins /\ [][NextJenkins]_vars
    /\ WF_vars(\E got \in HttpOutcomes : MakeRequestAttempt(got))
    /\ WF_vars(MakeRequestContinue)

(***************************************************************************)
(* Claims about the session store, checked under SpecStore.                *)
(***************************************************************************)
\* What get_session(id) returns in the current state.
Stored(id) == get_session(cache, files, id).ret

\* The messages of a session as role, content and timestamp.
MessagesOf(s) ==
    [i \in 1..Len(s.messages) |->
        [role |-> s.messages[i].role, content |-> s.messages[i].content,
         timestamp |-> s.messages[i].timestamp]]

\* C1: after add_message calls on a session id and a restart of the process,
\* get_session(id) returns a session whose messages are exactly the appended
\* ones, in order, with their roles, contents and timestamps.
C1_MessagesSurviveRestart ==
    last.op = "restart" =>
        \A id \in SessionIds :
            appended[id] # <<>> =>
                /\ Stored(id) # None
                /\ MessagesOf(Stored(id)) = appended[id]

\* C2: each add_message adds exactly one message, the one given, at the end of
\* the session's messages and leaves the earlier ones as they were, sets
\* updated_at to the time of the call and leaves created_at as it was.
C2_AppendOnly ==
    [][adds' = adds + 1 =>
          LET id == last'.id
              given == appended'[id][Len(appended'[id])]
              pre == Stored(id)
              post == cache'[id]
              n == Len(post.messages)
          IN  /\ n = (IF pre = None THEN 0 ELSE Len(pre.messages)) + 1
              /\ pre # None => SubSeq(post.messages, 1, n - 1) = pre.messages
              /\ post.messages[n].role = given.role
              /\ post.messages[n].content = given.content
              /\ post.updated_at = isoformat(clock')
              /\ pre # None => post.created_at = pre.created_at]_vars

\* C2 witness: a session holds two messages and its updated_at has moved away
\* from its created_at.
C2_Witness ==
    \E id \in DOMAIN cache :
        /\ Len(cache[id].messages) = 2
        /\ cache[id].messages[1] # cache[id].messages[2]
        /\ cache[id].updated_at # cache[id].created_at

C10_TitleFromFirstUserMessage ==
    [][adds' = adds + 1 =>
          LET id == last'.id
              given == appended'[id][Len(appended'[id])]
              pre == Stored(id)
              before == IF pre = None THEN <<>> ELSE pre.title
              after == cache'[id].title
              k == Min(Len(given.content), TitleLimit)
          IN  IF before = <<>> /\ given.role = "user"
              THEN /\ SubSeq(after, 1, k) = SubSeq(given.content, 1, k)
                   /\ SubSeq(after, k + 1, Len(after)) =
                          (IF Len(given.content) > TitleLimit THEN S_ellipsis ELSE <<>>)
              ELSE after = before]_vars

\* C10 witness: a title was cut at TitleLimit characters and given the marker.
C10_Witness ==
    \E id \in DOMAIN cache :
        /\ Len(cache[id].title) = TitleLimit + 3
        /\ cache[id].messages[1].role = "user"
        /\ Len(cache[id].messages[1].content) = TitleLimit + 1

(***************************************************************************)
(* Claims about the turns, checked under Spec.                             *)
(***************************************************************************)
Done(t) == t.pc = "done"

\* The text a finished turn answers with: the body's response, or the
\* response of the last frame.
AnswerOf(t) ==
    IF t.kind # "stream" THEN t.response.response ELSE t.frames[Len(t.frames)].response

FramesOfType(t, type) == SelectSeq(t.frames, LAMBDA fr : fr.type = type)

\* C3: every turn that runs to its end has persisted its user message
\* before the runtime was called and its assistant message after the
\* runtime returned, in that order.
C3_BothMessagesPersisted ==
    \A r \in Slots :
        Done(turn[r]) =>
            /\ turn[r].log = <<"save_user", "call_runtime", "runtime_returned", "save_assistant">>
            /\ Len(turn[r].saved) = 2
            /\ turn[r].saved[1] = [role |-> "user", content |-> turn[r].text]
            /\ turn[r].saved[2].role = "assistant"

\* C4: a routed turn is with the Parallel RCA coordinator exactly when its
\* text is not platform-specific, has RCA intent and at least two
\* specialists exist; otherwise it is with the Main Agent.
C4_RouterDecision ==
    \A r \in Slots :
        turn[r].dest # "none" =>
            LET rca == /\ _is_platform_specific_query(turn[r].text) = <<>>
                       /\ _is_rca_query(turn[r].text)
                       /\ Len(agent.sub_agents) >= 2
            IN  /\ turn[r].dest = IF rca THEN "rca" ELSE "main"
                /\ rca => DOMAIN turn[r].branches = Range(agent.sub_agents)
                /\ ~rca => /\ DOMAIN turn[r].branches = {}
                           /\ <<turn[r].user_id, turn[r].session_id>> \in runtime_sessions

C4_Witness ==
    \E r \in Slots :
        /\ Done(turn[r])
        /\ turn[r].dest = "rca"
        /\ Len(agent.sub_agents) = 2

\* C5: the report of a Parallel RCA has one section per specialist, in
\* which a specialist whose investigation failed has the error template
\* with the failure's message and every other has its own report.
C5_FailedSectionsUseTemplate ==
    \A r \in Slots :
        (Done(turn[r]) /\ turn[r].dest = "rca") =>
            AnswerOf(turn[r]) =
                _combine_rca_results(turn[r].text, agent.sub_agents,
                    [i \in DOMAIN agent.sub_agents |->
                        IF turn[r].branches[agent.sub_agents[i]].raised
                        THEN S_rca_error_prefix \o S_boom
                        ELSE turn[r].branches[agent.sub_agents[i]].returned.value])

\* The report read back: its lines, the positions of the section headers
\* and of the summary, and the body under the i-th header.
ReportLines(report) == Split(report, "\n")

IsPrefix(p, s) == Len(p) <= Len(s) /\ SubSeq(s, 1, Len(p)) = p

HeaderPositions(lines) ==
    SelectSeq([i \in DOMAIN lines |-> i], LAMBDA i : IsPrefix(S_section_open, lines[i]))

SummaryPosition(lines) == CHOOSE i \in DOMAIN lines : lines[i] = S_summary

SectionBody(lines, i) ==
    LET at == HeaderPositions(lines)
        next == IF i < Len(at) THEN at[i + 1] ELSE SummaryPosition(lines)
    IN  Join(SubSeq(lines, at[i] + 2, next - 4), S_nl)

\* C6: in the report of a Parallel RCA the sections, and the list of the
\* platforms investigated, follow the order in which the peers are
\* registered in the configuration, each section holding what that peer's
\* task returned, whatever the order in which the tasks ended.
C6_RegistrationOrder ==
    \A r \in Slots :
        (Done(turn[r]) /\ turn[r].dest = "rca") =>
            LET lines == ReportLines(AnswerOf(turn[r]))
                at == HeaderPositions(lines)
            IN  /\ Len(at) = Len(config)
                /\ lines[5] = S_platforms \o Join(config, S_comma)
                /\ \A i \in DOMAIN config :
                      /\ lines[at[i]] = S_section_open \o upper(config[i]) \o S_section_close
                      /\ SectionBody(lines, i) = turn[r].branches[config[i]].returned.value

C6_Witness ==
    \E r \in Slots :
        /\ Done(turn[r])
        /\ turn[r].dest = "rca"
        /\ turn[r].done_order # config
        /\ turn[r].branches[config[1]].returned # turn[r].branches[config[2]].returned

\* The function calls the specialists' runtimes reported in a turn.
RECURSIVE SubCallCount(_, _)
SubCallCount(t, names) ==
    IF names = {} THEN 0
    ELSE LET n == CHOOSE n \in names : TRUE
         IN  Len(t.branches[n].calls) + SubCallCount(t, names \ {n})

\* The frames of a stream but the tool_call frames: at least one status
\* frame first, and a single complete frame, the last one, which carries
\* the text the turn accumulated (or the placeholder when there is none)
\* and the ids of the request.
StreamEnvelope(t) ==
    /\ t.frames # <<>>
    /\ t.frames[1].type = "status"
    /\ Len(FramesOfType(t, "complete")) = 1
    /\ t.frames[Len(t.frames)] =
          CompleteFrame(IF t.parts # <<>> THEN Concat(t.parts) ELSE S_no_response,
                        t.user_id, t.session_id)

C8_ErrorTextPersisted ==
    \A r \in Slots :
        (Done(turn[r]) /\ turn[r].raised) =>
            /\ turn[r].saved # <<>>
            /\ turn[r].saved[Len(turn[r].saved)] = [role |-> "assistant", content |-> S_boom]

(***************************************************************************)
(* Claims about the endpoints, checked under SpecApi.                      *)
(***************************************************************************)
\* C11: a request to a chat endpoint whose text is empty is answered with
\* status 400 and gives no message to the store.
C11_EmptyTextRejected ==
    \A r \in Slots :
        (turn[r].kind # "none" /\ turn[r].text = <<>>) =>
            /\ turn[r].response = HttpError(400)
            /\ turn[r].saved = <<>>

HasSeparator(session_id) == "/" \in Range(session_id)

\* C12: the store holds no session whose id has a path separator
\* (get_session answers not-found for it), and no file of the store lies
\* outside the sessions directory.
C12_SeparatorIdsRejected ==
    /\ \A id \in PathIds : HasSeparator(id) => Stored(id) = None
    /\ \A p \in DOMAIN files : IsPrefix(SessionsDir, p)

(***************************************************************************)
(* Claims about list_sessions, checked under SpecStore.                    *)
(***************************************************************************)
\* The time a timestamp was printed from.
TimeOf(timestamp) == CHOOSE t \in 0..(2 * MaxClock + 2) : isoformat(t) = timestamp

\* C15: whatever the store holds, the user asked for and the order in
\* which the directory is read, list_sessions returns the sessions of
\* that user, all of them when no user is given, each once, the later
\* updated first.
C15_ListOrdered ==
    \A user \in UserIds \cup {"None"} :
        \A globbed \in GlobOrders(files) :
            LET listed == list_sessions(files, user, globbed)
            IN  /\ \A i \in DOMAIN listed : user = "None" \/ listed[i].user_id = user
                /\ Range(listed) =
                      {from_dict(files[q]) : q \in
                          {p \in Range(globbed) : user = "None" \/ files[p]["user_id"] = user}}
                /\ Len(listed) = Cardinality(Range(listed))
                /\ \A i, j \in DOMAIN listed :
                      i < j => TimeOf(listed[i].updated_at) >= TimeOf(listed[j].updated_at)

C15_Witness ==
    \E globbed \in GlobOrders(files) :
        LET listed == list_sessions(files, "None", globbed)
        IN  /\ Len(listed) = 2
            /\ listed[1].updated_at # listed[2].updated_at
            /\ from_dict(files[globbed[1]]) = listed[2]
            /\ listed[1].user_id # listed[2].user_id
            /\ list_sessions(files, "u1", globbed) = <<listed[2]>>

(***************************************************************************)
(* Claims about the start of the service, checked under SpecStartup.       *)
(***************************************************************************)
\* The enabled peers whose handshake failed: no connection, or the tool
\* listing of _load_mcp_tools raised.
FailedPeers == {name \in Range(config) : ~GetToolsReturns(last.ret[name], 1)}

\* C13: once the service has started with an enabled peer whose handshake
\* failed, the Main Agent exists, no request is answered 503, the failed
\* peers have neither a toolset nor a specialist, and every other enabled
\* peer has both.
C13_HandshakeFailureNotFatal ==
    (last.op = "lifespan" /\ FailedPeers # {}) =>
        /\ agent.agent
        /\ \A r \in Slots : turn[r].response # HttpError(503)
        /\ Range(agent.mcp_toolsets) = Range(config) \ FailedPeers
        /\ Range(agent.sub_agents) = Range(config) \ FailedPeers

(***************************************************************************)
(* Claims about the router's keyword test, checked under SpecRouter.       *)
(***************************************************************************)
\* The keyword list of a peer.
KeywordsOf(peer) == IF peer = S_jenkins THEN jenkins_keywords ELSE k8s_keywords

\* The peers whose keyword list matches the text, as the code matches.
MatchingPeers(query) == {peer \in PeerNames : AnyKeyword(KeywordsOf(peer), lower(query))}

Classified == last.op = "_is_platform_specific_query"

\* C17: the value returned for a text is the peer P exactly when P is the
\* only peer whose keyword list matches the text; with no matching peer or
\* more than one the text is not platform-specific.
C17_SpecificIffExactlyOne ==
    Classified =>
        \A peer \in PeerNames : (last.ret = peer) <=> (MatchingPeers(last.id) = {peer})

\* C18: when the keyword lists of all configured peers match the text, the
\* value returned is the peer registered first in the configuration.
C18_FirstRegisteredWins ==
    (Classified /\ Len(config) > 1 /\ MatchingPeers(last.id) = Range(config)) =>
        last.ret = config[1]

\* A character of a word.
WordChars ==
    Range(S_lowers) \cup {"0", "1", "2", "3", "4", "5", "6", "7", "8", "9", "_"}

\* keyword occurs in s as whole words: not preceded and not followed by a
\* character of a word.
WholeWordIn(keyword, s) ==
    \E i \in 1..(Len(s) - Len(keyword) + 1) :
        /\ SubSeq(s, i, i + Len(keyword) - 1) = keyword
        /\ i = 1 \/ s[i - 1] \notin WordChars
        /\ i + Len(keyword) > Len(s) \/ s[i + Len(keyword)] \notin WordChars

\* C19: a text is platform-specific only if some keyword occurs in the
\* lower-cased text as a whole word.
C19_WholeWordMatch ==
    (Classified /\ last.ret # <<>>) =>
        \E i \in DOMAIN KeywordsOf(last.ret) :
            WholeWordIn(KeywordsOf(last.ret)[i], lower(last.id))

Running(t) == {n \in DOMAIN t.branches : t.branches[n].pc = "running"}

\* C21: in a Parallel RCA the end of one specialist's task, by return or by
\* an exception of its runtime, leaves every other task as it is; while a
\* task is running the turn has neither a response nor a saved answer, and
\* the report is produced only once every task has ended, each once.
C21_CoordinatorWaitsForAll ==
    [][\A r \in Slots :
          /\ (turn[r].pc = "rca" /\ turn'[r].pc = "rca") =>
                \A n \in Running(turn[r]) \ Running(turn'[r]) :
                    /\ turn'[r].done_order = Append(turn[r].done_order, n)
                    /\ \A other \in DOMAIN turn[r].branches \ {n} :
                          turn'[r].branches[other] = turn[r].branches[other]
          /\ (turn'[r].dest = "rca" /\ Running(turn'[r]) # {}) =>
                /\ turn'[r].pc = "rca"
                /\ turn'[r].response = NoResponse
                /\ FramesOfType(turn'[r], "complete") = <<>>
                /\ Len(turn'[r].saved) = 1
          /\ (turn'[r].dest = "rca" /\ turn'[r].pc = "done") =>
                /\ Running(turn'[r]) = {}
                /\ Len(turn'[r].done_order) = Len(agent.sub_agents)
                /\ Range(turn'[r].done_order) = Range(agent.sub_agents)]_vars

\* A specialist registered later has ended by an exception while the one
\* registered first is still running.
C21_Witness ==
    \E r \in Slots :
        /\ turn[r].pc = "rca"
        /\ Len(agent.sub_agents) = 2
        /\ turn[r].done_order = <<agent.sub_agents[2]>>
        /\ turn[r].branches[agent.sub_agents[2]].raised
        /\ Running(turn[r]) = {agent.sub_agents[1]}

(***************************************************************************)
(* Claims about the session files, checked under SpecCrash.                *)
(***************************************************************************)
\* C22: after every step, a crash in save_session included, each session
\* file holds a complete session: what it held before the step, or the
\* session the step saved; no file is left empty or partly written.
C22_AtomicWrites ==
    [][\A p \in DOMAIN files' :
          \/ p \in DOMAIN files /\ files'[p] = files[p]
          \/ /\ files'[p] # Corrupt
             /\ files'[p] = to_dict(from_dict(files'[p]))]_vars

\* An id has a stored session when the cache holds it or its file exists.
HasStored(c, f, id) == id \in DOMAIN c \/ Exists(f, session_file(id))

\* C25: whatever the cache and the file of an id hold, an add_message on an
\* id that has a stored session finds that session and leaves a session
\* with one message more than it had, created when it was created; it
\* never starts the id again with a new session.
C25_AddMessageExtends ==
    [][\A id \in SessionIds :
          ( /\ adds' = adds + 1
            /\ last'.op = "add_message"
            /\ last'.id = id
            /\ HasStored(cache, files, id) )
          => /\ get_session(cache, files, id).ret # None
             /\ Len(cache'[id].messages) = Len(get_session(cache, files, id).ret.messages) + 1
             /\ cache'[id].created_at = get_session(cache, files, id).ret.created_at]_vars

(***************************************************************************)
(* Claims about the timestamps of a session, checked under SpecStore, in   *)
(* which the readings of the clock never decrease.                         *)
(***************************************************************************)
\* The sessions the store holds: those of the cache and those of the files.
StoredSessions ==
    {cache[id] : id \in DOMAIN cache}
        \cup {from_dict(files[p]) : p \in {q \in DOMAIN files : files[q] # Corrupt}}

\* a is not later than b, as strings and as the times they were printed from.
NotLater(a, b) == ~StrLess(b, a) /\ TimeOf(a) <= TimeOf(b)

\* C23: in every session the store holds, created_at is not later than the
\* timestamp of any message, and no message has a timestamp earlier than
\* that of a message appended before it.
C23_TimestampsOrdered ==
    \A session \in StoredSessions :
        /\ \A i \in DOMAIN session.messages :
              NotLater(session.created_at, session.messages[i].timestamp)
        /\ \A i, j \in DOMAIN session.messages :
              i < j => NotLater(session.messages[i].timestamp, session.messages[j].timestamp)

C23_Witness ==
    \E session \in StoredSessions :
        /\ Len(session.messages) = 2
        /\ session.created_at = session.messages[1].timestamp
        /\ session.messages[1].timestamp # session.messages[2].timestamp

(***************************************************************************)
(* Claims about requests served at the same time, checked under            *)
(* SpecConcurrent.                                                         *)
(***************************************************************************)
\* The role and the text of the messages of a session.
Said(session) == [i \in DOMAIN session.messages |->
                     [role |-> session.messages[i].role,
                      content |-> session.messages[i].content]]

\* The entries of seq that owner gives to r, in their order.
PartOf(seq, owner, r) ==
    LET idx == {i \in DOMAIN seq : owner[i] = r}
        nth[k \in 0..Len(seq)] ==
            IF k = 0 THEN 0 ELSE CHOOSE i \in idx : Cardinality({j \in idx : j <= i}) = k
    IN  [k \in 1..Cardinality(idx) |-> seq[nth[k]]]

\* C24: with several turns in flight on one session id, the session of the
\* cache and that of the file are the same, and its messages are the
\* messages the turns have saved, each once, those of one turn in the
\* order the turn saved them: the user message before the answer.
C24_NoLostAppend ==
    \A id \in TurnSessionIds :
        LET mine == {r \in ConcurrentSlots : turn[r].session_id = id /\ turn[r].saved # <<>>}
        IN  mine # {} =>
              /\ id \in DOMAIN cache
              /\ Exists(files, session_file(id))
              /\ from_dict(files[Resolve(session_file(id)).path]) = cache[id]
              /\ \E owner \in [DOMAIN cache[id].messages -> mine] :
                    \A r \in mine : PartOf(Said(cache[id]), owner, r) = turn[r].saved
              /\ \A r \in mine : turn[r].saved[1].role = "user"

C24_Witness ==
    \E r1, r2 \in ConcurrentSlots :
        /\ turn[r1].session_id = turn[r2].session_id
        /\ turn[r1].text # turn[r2].text
        /\ turn[r1].pc = "done" /\ turn[r2].pc = "done"
        /\ Len(turn[r1].saved) = 2 /\ Len(turn[r2].saved) = 2
        /\ Said(cache[turn[r1].session_id]) =
              <<turn[r1].saved[1], turn[r2].saved[1], turn[r2].saved[2], turn[r1].saved[2]>>

(***************************************************************************)
(* Claims about the runtime's sessions, checked under SpecIsolation.       *)
(***************************************************************************)
\* C26: the specialists of a Parallel RCA on the caller session id S run
\* under the runtime session ids S_P, one for each peer P, all held by the
\* runtime, and none of them is the runtime session of a turn of the Main
\* Agent, of S or of another caller session id of the same user.
C26_RuntimeSessionsIsolated ==
    \A r1 \in RoutingSlots :
        turn[r1].dest = "rca" =>
            /\ RuntimeSessionsOf(turn[r1], agent) =
                  { <<turn[r1].user_id, SubSessionId(turn[r1].session_id, name)>> :
                        name \in Range(agent.sub_agents) }
            /\ Cardinality(RuntimeSessionsOf(turn[r1], agent)) = Len(agent.sub_agents)
            /\ RuntimeSessionsOf(turn[r1], agent) \subseteq runtime_sessions
            /\ \A r2 \in RoutingSlots :
                  turn[r2].dest = "main" =>
                      RuntimeSessionsOf(turn[r1], agent)
                          \cap RuntimeSessionsOf(turn[r2], agent) = {}

\* C27: once initialize has ended, the tools of the Main Agent are the
\* tools of the specialists taken together and no other, and an enabled
\* peer that is up with no tool to advertise has a specialist, with no
\* tool.
C27_MainToolsAreSpecialistTools ==
    (last.op = "lifespan" /\ agent.agent) =>
        /\ Range(agent.tools) =
              UNION { Range(agent.sub_tools[name]) : name \in DOMAIN agent.sub_tools }
        /\ \A name \in Range(config) :
              last.ret[name] = "no_tools" =>
                  /\ name \in DOMAIN agent.sub_tools
                  /\ agent.sub_tools[name] = <<>>

(***************************************************************************)
(* Claims about the two chat paths, checked under SpecRouting, where the   *)
(* runtime's events are final responses and a turn's events are told by    *)
(* their number, by whether the runtime raised and by the specialists'     *)
(* tasks.                                                                  *)
(***************************************************************************)
\* Two finished turns, a POST /chat and a POST /chat/stream, on two session
\* ids, with the same text, destination and events of the runtime.
SameRun(t, u) ==
    /\ t.kind = "chat" /\ u.kind = "stream"
    /\ Done(t) /\ Done(u)
    /\ t.session_id # u.session_id
    /\ t.text = u.text
    /\ t.dest = u.dest
    /\ t.nev = u.nev
    /\ t.parts = u.parts
    /\ t.raised = u.raised
    /\ t.branches = u.branches

\* C28: a POST /chat and a POST /chat/stream with the same text,
\* destination and events leave sessions with the same messages, and the
\* text of the complete frame is the text POST /chat returns and the
\* assistant message saved for the turn.
C28_ChatStreamEquivalent ==
    \A r1, r2 \in RoutingSlots :
        SameRun(turn[r1], turn[r2]) =>
            /\ Said(cache[turn[r1].session_id]) = Said(cache[turn[r2].session_id])
            /\ AnswerOf(turn[r2]) = AnswerOf(turn[r1])
            /\ turn[r2].saved =
                  << [role |-> "user", content |-> turn[r2].text],
                     [role |-> "assistant", content |-> AnswerOf(turn[r2])] >>

(***************************************************************************)
(* Claims about the sessions the endpoints leave, checked under            *)
(* SpecDelete.                                                             *)
(***************************************************************************)
\* C29: whatever the endpoints have done, in whatever order, every session
\* of the cache and of the files that has a message has a user message
\* first.
C29_SessionsStartWithUser ==
    \A session \in StoredSessions :
        session.messages # <<>> => session.messages[1].role = "user"

(***************************************************************************)
(* Claims about the Jenkins client, checked under SpecJenkins.             *)
(***************************************************************************)
Retried(got) == got.kind = "RequestError" \/ got.status_code >= 500

MakeRequestBounded ==
    /\ Len(last.responses) <= last.max_retries + 1
    /\ \A i \in 1..(Len(last.responses) - 1) : Retried(last.responses[i])
    /\ LET n == Len(last.responses)
       IN  (n > 0 /\ ~Retried(last.responses[n])) =>
              IF last.responses[n].status_code >= 400
              THEN last.pc = "raised"
              ELSE last.pc = "returned"
    /\ last.pc = "raised" => last.error \in JenkinsErrors
    /\ last.pc = "returned" =>
          /\ last.responses # <<>>
          /\ last.responses[Len(last.responses)].kind = "response"

====
